---- MODULE Spec2Model ----
(***************************************************************************)
(* Model of the `rst` extension module (src/rst/src/lib.rs and             *)
(* src/rst/src/imple/time.rs): the three exported functions from_duration, *)
(* to_iso and sum, together with the library routines they delegate to     *)
(* (std::time::Duration::new, SystemTime + Duration,                       *)
(* humantime::format_duration, humantime::format_rfc3339, ToString).       *)
(*                                                                         *)
(* Machine integers.  TLC's integers are 32 bits wide, the program's are   *)
(* 64 (u64, and usize on a 64-bit target) and 32 (u32) bits wide.  A       *)
(* machine integer is therefore held as a "wide" number: five limbs in     *)
(* base 10^4, most significant first, so <<0, 0, 2534, 230, 800>> is       *)
(* 253402300800.  Every operation on wide numbers is exact.                *)
(*                                                                         *)
(* Strings are sequences of one-character strings, written by the model    *)
(* as the code writes them (digit by digit), so that shape, ordering and   *)
(* parsing back are properties that can fail.                              *)
(***************************************************************************)
EXTENDS Integers, Sequences, FiniteSets, TLC

VARIABLES overflow_checks, cur, pinned

vars == <<overflow_checks, cur, pinned>>

----------------------------------------------------------------------------
(* Wide numbers *)

\* How far past each landmark input the enumerated inputs go.
MaxDelta == 1

Zero == <<0, 0, 0, 0, 0>>

\* u64::MAX = 18446744073709551615 = 2^64 - 1
U64Max == <<1844, 6744, 737, 955, 1615>>

\* 2^64
TwoPow64 == <<1844, 6744, 737, 955, 1616>>

\* i64::MAX = 9223372036854775807 = 2^63 - 1
I64Max == <<922, 3372, 368, 5477, 5807>>

\* u32::MAX = 4294967295
U32Max == <<0, 0, 42, 9496, 7295>>

RECURSIVE LtFrom(_, _, _)
LtFrom(a, b, i) ==
    IF i > Len(a) THEN FALSE
    ELSE IF a[i] # b[i] THEN a[i] < b[i]
    ELSE LtFrom(a, b, i + 1)

Lt(a, b) == LtFrom(a, b, 1)

Le(a, b) == ~Lt(b, a)

\* A TLC integer 0 <= n < 2^31 as a wide number.
W(n) == <<0, 0, n \div 100000000, (n \div 10000) % 10000, n % 10000>>

\* A wide number below 2 * 10^9 as a TLC integer.
ToInt(a) == a[3] * 100000000 + a[4] * 10000 + a[5]

\* a + b, exact for a + b < 10^20 (two u64 values sum to less than 2^65).
Add(a, b) ==
    LET s5 == a[5] + b[5]
        s4 == a[4] + b[4] + s5 \div 10000
        s3 == a[3] + b[3] + s4 \div 10000
        s2 == a[2] + b[2] + s3 \div 10000
        s1 == a[1] + b[1] + s2 \div 10000
    IN <<s1, s2 % 10000, s3 % 10000, s4 % 10000, s5 % 10000>>

\* a - b for a >= b.
Sub(a, b) ==
    LET d5 == a[5] - b[5]
        d4 == a[4] - b[4] - (IF d5 < 0 THEN 1 ELSE 0)
        d3 == a[3] - b[3] - (IF d4 < 0 THEN 1 ELSE 0)
        d2 == a[2] - b[2] - (IF d3 < 0 THEN 1 ELSE 0)
        d1 == a[1] - b[1] - (IF d2 < 0 THEN 1 ELSE 0)
    IN <<d1, d2 % 10000, d3 % 10000, d4 % 10000, d5 % 10000>>

\* a * k for 0 <= k <= 200000, exact while the product is below 10^20.
Mul(a, k) ==
    LET p5 == a[5] * k
        p4 == a[4] * k + p5 \div 10000
        p3 == a[3] * k + p4 \div 10000
        p2 == a[2] * k + p3 \div 10000
        p1 == a[1] * k + p2 \div 10000
    IN <<p1 % 10000, p2 % 10000, p3 % 10000, p4 % 10000, p5 % 10000>>

\* Long division of a by 1 <= d <= 200000: [q |-> a div d, r |-> a mod d].
DivMod(a, d) ==
    LET c1 == a[1]
        c2 == (c1 % d) * 10000 + a[2]
        c3 == (c2 % d) * 10000 + a[3]
        c4 == (c3 % d) * 10000 + a[4]
        c5 == (c4 % d) * 10000 + a[5]
    IN [q |-> <<c1 \div d, c2 \div d, c3 \div d, c4 \div d, c5 \div d>>,
        r |-> c5 % d]

\* Division by d1 * d2 in two steps: a = d1*q1 + r1, q1 = d2*q2 + r2, so
\* a div (d1*d2) = q2 and a mod (d1*d2) = r2*d1 + r1.
DivMod2(a, d1, d2) ==
    LET s1 == DivMod(a, d1)
        s2 == DivMod(s1.q, d2)
    IN [q |-> s2.q, r |-> s2.r * d1 + s1.r]

----------------------------------------------------------------------------
(* Results of a call across the foreign-function boundary *)

Ok(v) == [kind |-> "ok", val |-> v]

\* A Rust panic, which the boundary raises in the host as an exception.
Panic == [kind |-> "panic", val |-> <<>>]

\* The boundary's argument check failed: a required argument is missing.
TypeError == [kind |-> "type_error", val |-> <<>>]

\* An argument as the host passes it: Some(x) is <<x>>, absent is <<>>.
Some(x) == <<x>>

Absent == <<>>

----------------------------------------------------------------------------
(* sum *)

\* Mutant of UsizeAdd: the addition done in isize, failing past i64::MAX.
UsizeAddSigned(a, b, checks) ==
    LET s == Add(a, b)
    IN IF Le(s, I64Max) THEN Ok(s) ELSE Panic

\* Mutant of UsizeAdd: a saturating addition.
UsizeAddSaturating(a, b, checks) ==
    LET s == Add(a, b)
    IN IF Le(s, U64Max) THEN Ok(s) ELSE Ok(U64Max)

\* usize addition `a + b`: with overflow checks (the debug profile) an
\* overflowing addition panics, without them (the release profile) it wraps.
UsizeAdd(a, b, checks) ==
    LET s == Add(a, b)
    IN IF Le(s, U64Max) THEN Ok(s)
       ELSE IF checks THEN Panic
       ELSE Ok(Sub(s, TwoPow64))

\* Mutant of sum: a result kept from the previous sum call is returned again.
sum_stale(a, b) ==
    IF a = Absent \/ b = Absent THEN TypeError
    ELSE IF cur.op = "sum" /\ cur.out.kind = "ok" THEN cur.out
    ELSE UsizeAdd(a[1], b[1], overflow_checks)

\* #[pyfunction] fn sum(a: usize, b: usize) -> PyResult<usize>
sum(a, b) ==
    IF a = Absent \/ b = Absent THEN TypeError
    ELSE UsizeAdd(a[1], b[1], overflow_checks)

----------------------------------------------------------------------------
(* Strings and decimal formatting *)

\* A string literal as the sequence of its characters.
Chars(s) == [i \in 1..Len(s) |-> SubSeq(s, i, i)]

Digits == Chars("0123456789")

\* b'0' + d
DigitChar(d) == Digits[d + 1]

\* The four decimal digits of one limb.
LimbChars(x) ==
    <<DigitChar(x \div 1000), DigitChar((x \div 100) % 10),
      DigitChar((x \div 10) % 10), DigitChar(x % 10)>>

RECURSIVE StripZeros(_)
StripZeros(s) ==
    IF Len(s) > 1 /\ s[1] = "0" THEN StripZeros(Tail(s)) ELSE s

\* `{}` of an unsigned integer: its decimal digits without leading zeros.
Dec(a) ==
    StripZeros(LimbChars(a[1]) \o LimbChars(a[2]) \o LimbChars(a[3])
               \o LimbChars(a[4]) \o LimbChars(a[5]))

----------------------------------------------------------------------------
(* from_duration *)

\* Mutant of DurationNew: the whole seconds held in nanos are dropped.
DurationNewNoCarry(secs, nanos) ==
    Ok([secs |-> secs, nanos |-> DivMod2(nanos, 10000, 100000).r])

\* Mutant of DurationNew: the carry is added with a wrapping addition.
DurationNewWrapping(secs, nanos) ==
    LET split == DivMod2(nanos, 10000, 100000)
        total == Add(secs, split.q)
    IN Ok([secs |-> IF Le(total, U64Max) THEN total ELSE Sub(total, TwoPow64),
           nanos |-> split.r])

\* std::time::Duration::new(secs: u64, nanos: u32): whole seconds in nanos
\* are carried into secs with a checked addition that panics on overflow.
DurationNew(secs, nanos) ==
    LET split == DivMod2(nanos, 10000, 100000)
        total == Add(secs, split.q)
    IN IF Lt(nanos, W(1000000000)) THEN Ok([secs |-> secs, nanos |-> ToInt(nanos)])
       ELSE IF Le(total, U64Max) THEN Ok([secs |-> total, nanos |-> split.r])
       ELSE Panic

\* humantime's item_plural(f, started, name, value: u64)
item_plural(f, name, value) ==
    IF Lt(Zero, value)
    THEN [buf |-> f.buf \o (IF f.started THEN Chars(" ") ELSE <<>>)
                        \o Dec(value) \o name
                        \o (IF Lt(W(1), value) THEN Chars("s") ELSE <<>>),
          started |-> TRUE]
    ELSE f

\* Mutant of item: a unit is written even when its value is zero.
item_keeps_zero(f, name, value) ==
    [buf |-> f.buf \o (IF f.started THEN Chars(" ") ELSE <<>>)
                   \o Dec(W(value)) \o name,
     started |-> TRUE]

\* humantime's item(f, started, name, value: u32)
item(f, name, value) ==
    IF value > 0
    THEN [buf |-> f.buf \o (IF f.started THEN Chars(" ") ELSE <<>>)
                        \o Dec(W(value)) \o name,
          started |-> TRUE]
    ELSE f

\* humantime::format_duration(dur).to_string(): years of 365.25 days
\* (31_557_600 s = 21600 * 1461), months of 30.44 days (2_630_016 s).
format_duration(dur) ==
    LET secs == dur.secs
        nanos == dur.nanos
        y == DivMod2(secs, 21600, 1461)
        years == y.q
        ydays == y.r
        months == ydays \div 2630016
        mdays == ydays % 2630016
        days == mdays \div 86400
        day_secs == mdays % 86400
        hours == day_secs \div 3600
        minutes == (day_secs % 3600) \div 60
        seconds == day_secs % 60
        millis == nanos \div 1000000
        micros == (nanos \div 1000) % 1000
        nanosec == nanos % 1000
        f0 == [buf |-> <<>>, started |-> FALSE]
        f1 == item_plural(f0, Chars("year"), years)
        f2 == item_plural(f1, Chars("month"), W(months))
        f3 == item_plural(f2, Chars("day"), W(days))
        f4 == item(f3, Chars("h"), hours)
        f5 == item(f4, Chars("m"), minutes)
        f6 == item(f5, Chars("s"), seconds)
        f7 == item(f6, Chars("ms"), millis)
        f8 == item(f7, Chars("us"), micros)
        f9 == item(f8, Chars("ns"), nanosec)
    IN IF secs = Zero /\ nanos = 0 THEN Chars("0s") ELSE f9.buf

\* imple::time::duration_to_humatime(dur)
duration_to_humatime(dur) == format_duration(dur)

\* #[pyfunction] fn from_duration(secs: usize, mut nanos: u32): both
\* arguments are required; `if let None = Some(nanos)` never matches.
from_duration(secs, nanos) ==
    IF secs = Absent \/ nanos = Absent THEN TypeError
    ELSE LET n == IF Some(nanos[1]) = Absent THEN Zero ELSE nanos[1]
             duration == DurationNew(secs[1], n)
         IN IF duration.kind = "ok"
            THEN Ok(duration_to_humatime(duration.val))
            ELSE Panic

----------------------------------------------------------------------------
(* to_iso *)

\* Rust's `/` on i64 truncates toward zero (TLA+'s \div rounds down).
TruncDiv(a, b) == IF a >= 0 THEN a \div b ELSE -((-a) \div b)

\* Rust's `%` on i64: the remainder has the sign of the dividend.
TruncRem(a, b) == a - b * TruncDiv(a, b)

\* SystemTime + Duration (time::UNIX_EPOCH + dur): the seconds are an i64;
\* the addition panics when the result does not fit.
SystemTimeAdd(dur) ==
    IF Le(dur.secs, I64Max) THEN Ok(dur.secs) ELSE Panic

\* Mutant of MonthLens: February without its leap day.
MonthLensNoLeap == <<31, 30, 31, 30, 31, 31, 30, 31, 30, 31, 31, 28>>

\* Month lengths from March on, February (29) last.
MonthLens == <<31, 30, 31, 30, 31, 31, 30, 31, 30, 31, 31, 29>>

\* for mon_len in months.iter() { mon += 1; if remdays < *mon_len { break; }
\*                                remdays -= *mon_len; }
RECURSIVE MonthLoop(_, _)
MonthLoop(mon, remdays) ==
    IF mon = Len(MonthLens) THEN [mon |-> mon, remdays |-> remdays]
    ELSE IF remdays < MonthLens[mon + 1]
    THEN [mon |-> mon + 1, remdays |-> remdays]
    ELSE MonthLoop(mon + 1, remdays - MonthLens[mon + 1])

\* 253_402_300_800: the first second of year 10000.
Year10000 == <<0, 0, 2534, 230, 800>>

\* humantime's Display for Rfc3339Timestamp at whole seconds: Err for a
\* time past year 9999 (secs_since_epoch >= 253_402_300_800), else the
\* twenty bytes YYYY-MM-DDTHH:MM:SSZ.
Rfc3339Fmt(secs_since_epoch) ==
    IF Le(Year10000, secs_since_epoch) THEN [kind |-> "err", val |-> <<>>]
    ELSE
    LET LEAPOCH == 11017
        DAYS_PER_400Y == 365 * 400 + 97
        DAYS_PER_100Y == 365 * 100 + 24
        DAYS_PER_4Y == 365 * 4 + 1
        split == DivMod(secs_since_epoch, 86400)
        days == ToInt(split.q) - LEAPOCH
        secs_of_day == split.r
        qc0 == TruncDiv(days, DAYS_PER_400Y)
        rem0 == TruncRem(days, DAYS_PER_400Y)
        qc_cycles == IF rem0 < 0 THEN qc0 - 1 ELSE qc0
        rem1 == IF rem0 < 0 THEN rem0 + DAYS_PER_400Y ELSE rem0
        c0 == rem1 \div DAYS_PER_100Y
        c_cycles == IF c0 = 4 THEN c0 - 1 ELSE c0
        rem2 == rem1 - c_cycles * DAYS_PER_100Y
        q0 == rem2 \div DAYS_PER_4Y
        q_cycles == IF q0 = 25 THEN q0 - 1 ELSE q0
        rem3 == rem2 - q_cycles * DAYS_PER_4Y
        y0 == rem3 \div 365
        remyears == IF y0 = 4 THEN y0 - 1 ELSE y0
        rem4 == rem3 - remyears * 365
        year0 == 2000 + remyears + 4 * q_cycles + 100 * c_cycles + 400 * qc_cycles
        m == MonthLoop(0, rem4)
        mday == m.remdays + 1
        year == IF m.mon + 2 > 12 THEN year0 + 1 ELSE year0
        mon == IF m.mon + 2 > 12 THEN m.mon - 10 ELSE m.mon + 2
    IN Ok(<<DigitChar(year \div 1000), DigitChar((year \div 100) % 10),
            DigitChar((year \div 10) % 10), DigitChar(year % 10), "-",
            DigitChar(mon \div 10), DigitChar(mon % 10), "-",
            DigitChar(mday \div 10), DigitChar(mday % 10), "T",
            DigitChar((secs_of_day \div 3600) \div 10),
            DigitChar((secs_of_day \div 3600) % 10), ":",
            DigitChar(((secs_of_day \div 60) \div 10) % 6),
            DigitChar((secs_of_day \div 60) % 10), ":",
            DigitChar((secs_of_day \div 10) % 6),
            DigitChar(secs_of_day % 10), "Z">>)

\* humantime::format_rfc3339(t).to_string(): ToString panics when Display
\* returns an error.
format_rfc3339(secs_since_epoch) ==
    LET r == Rfc3339Fmt(secs_since_epoch)
    IN IF r.kind = "ok" THEN r ELSE Panic

\* Mutant of timestamp_to_iso: formatted with millisecond precision.
timestamp_to_iso_millis(stamp) ==
    LET new_time == SystemTimeAdd(DurationNew(stamp, Zero).val)
        r == IF new_time.kind = "ok" THEN format_rfc3339(new_time.val) ELSE Panic
    IN IF r.kind = "ok" THEN Ok(SubSeq(r.val, 1, 19) \o Chars(".000Z")) ELSE r

\* imple::time::timestamp_to_iso(stamp): `if let None = Some(stamp)` never
\* matches, so stamp is used as passed.
timestamp_to_iso(stamp) ==
    LET st == IF Some(stamp) = Absent THEN Zero ELSE stamp
        new_time == SystemTimeAdd(DurationNew(st, Zero).val)
    IN IF new_time.kind = "ok" THEN format_rfc3339(new_time.val) ELSE Panic

\* #[pyfunction] fn to_iso(stamp: u64): the argument is required.
to_iso(stamp) ==
    IF stamp = Absent THEN TypeError ELSE timestamp_to_iso(stamp[1])

----------------------------------------------------------------------------
(* Inputs *)

\* b, b+1, ..., b+MaxDelta for each landmark b, kept within u64.
Around(bases) ==
    {v \in {Add(b, W(k)) : b \in bases, k \in 0..MaxDelta} : Le(v, U64Max)}

\* Epoch; the end of 1970; 1972-02-29, 2000-02-28 and 2100-02-28 at
\* 23:59:59; the last second of year 9999; i64::MAX; u64::MAX - 1.
StampBases ==
    {Zero, W(31535999), W(68255999), W(951782399), <<0, 0, 41, 754, 2399>>,
     <<0, 0, 2534, 230, 799>>, I64Max, Sub(U64Max, W(1))}

StampArgs == {Absent} \cup {Some(t) : t \in Around(StampBases)}

SecsBases ==
    {Zero, W(3660), W(2630015), W(31557599), W(63115199), Sub(U64Max, W(1))}

SecsArgs == {Absent} \cup {Some(t) : t \in Around(SecsBases)}

NanosArgs ==
    {Absent, Some(Zero), Some(W(1001001)), Some(W(999999999)),
     Some(W(1000000000)), Some(U32Max)}

\* The (secs, nanos) pairs called: every secs with nanos 0 or 1ms 1us 1ns,
\* and every nanos with secs absent, 0, 3661 or u64::MAX.
DurationArgs ==
    {p \in SecsArgs \X NanosArgs :
        \/ p[2] \in {Some(Zero), Some(W(1001001))}
        \/ p[1] \in {Absent, Some(Zero), Some(W(3661)), Some(U64Max)}}

SumBases == {Zero, I64Max, Sub(U64Max, W(1))}

SumArgs == {Absent} \cup {Some(t) : t \in Around(SumBases)}

----------------------------------------------------------------------------
(* The calls *)

\* No call made yet.
NoCall == [op |-> "none", args |-> <<>>, out |-> Ok(<<>>)]

\* The build profile is fixed when the module is compiled.
Init ==
    /\ overflow_checks \in BOOLEAN
    /\ cur = NoCall
    /\ pinned = NoCall

\* A call and the result the host sees.
Call(op, args, out) == [op |-> op, args |-> args, out |-> out]

\* from_duration(secs, nanos) is called and returns out.
FromDuration(p, out) ==
    /\ cur' = Call("from_duration", p, out)
    /\ UNCHANGED <<overflow_checks, pinned>>

\* to_iso(stamp) is called and returns out.
ToIso(stamp, out) ==
    /\ cur' = Call("to_iso", <<stamp>>, out)
    /\ UNCHANGED <<overflow_checks, pinned>>

\* sum(a, b) is called and returns out.
Sum(a, b, out) ==
    /\ cur' = Call("sum", <<a, b>>, out)
    /\ UNCHANGED <<overflow_checks, pinned>>

\* pinned is an observer, not program state: it keeps one earlier call,
\* chosen freely, for later calls to be compared with.
Pin ==
    /\ cur.op # "none"
    /\ pinned.op = "none"
    /\ pinned' = cur
    /\ UNCHANGED <<overflow_checks, cur>>

Next ==
    \/ \E p \in DurationArgs : FromDuration(p, from_duration(p[1], p[2]))
    \/ \E stamp \in StampArgs : ToIso(stamp, to_iso(stamp))
    \/ \E a \in SumArgs, b \in SumArgs : Sum(a, b, sum(a, b))
    \/ Pin

Spec == Init /\ [][Next]_vars

----------------------------------------------------------------------------
(* Reading results back: what a returned string denotes *)

IsDigit(c) == \E d \in 1..Len(Digits) : Digits[d] = c

DigitVal(c) == (CHOOSE d \in 1..Len(Digits) : Digits[d] = c) - 1

\* ASCII codes of the characters of a date-time string.
Ord(c) ==
    IF IsDigit(c) THEN 48 + DigitVal(c)
    ELSE IF c = "-" THEN 45
    ELSE IF c = ":" THEN 58
    ELSE IF c = "T" THEN 84
    ELSE IF c = "Z" THEN 90
    ELSE 0

\* Lexicographic (byte-wise) order of strings.
RECURSIVE LexLt(_, _)
LexLt(x, y) ==
    IF y = <<>> THEN FALSE
    ELSE IF x = <<>> THEN TRUE
    ELSE IF x[1] # y[1] THEN Ord(x[1]) < Ord(y[1])
    ELSE LexLt(Tail(x), Tail(y))

\* YYYY-MM-DDTHH:MM:SSZ: twenty characters, digits except at the separators.
IsIsoShape(x) ==
    /\ Len(x) = 20
    /\ x[5] = "-" /\ x[8] = "-" /\ x[11] = "T"
    /\ x[14] = ":" /\ x[17] = ":" /\ x[20] = "Z"
    /\ \A i \in (1..19) \ {5, 8, 11, 14, 17} : IsDigit(x[i])

Num2(x, i) == DigitVal(x[i]) * 10 + DigitVal(x[i + 1])

IsLeap(y) == (y % 4 = 0 /\ y % 100 # 0) \/ y % 400 = 0

\* Proleptic Gregorian month lengths, January first.
DaysInMonth(y, m) ==
    IF m = 2 THEN (IF IsLeap(y) THEN 29 ELSE 28)
    ELSE IF m \in {4, 6, 9, 11} THEN 30 ELSE 31

\* Leap years among the years 1 .. y-1.
LeapsBefore(y) == (y - 1) \div 4 - (y - 1) \div 100 + (y - 1) \div 400

RECURSIVE DaysBeforeMonth(_, _)
DaysBeforeMonth(y, m) ==
    IF m = 1 THEN 0 ELSE DaysBeforeMonth(y, m - 1) + DaysInMonth(y, m - 1)

\* Days from 1970-01-01 to the civil date y-m-d.
DaysFromCivil(y, m, d) ==
    365 * (y - 1970) + LeapsBefore(y) - LeapsBefore(1970)
    + DaysBeforeMonth(y, m) + (d - 1)

\* Whether the date-time string x names the instant t seconds after
\* 1970-01-01T00:00:00Z.
Denotes(x, t) ==
    /\ IsIsoShape(x)
    /\ LET y == Num2(x, 1) * 100 + Num2(x, 3)
           mo == Num2(x, 6)
           d == Num2(x, 9)
           h == Num2(x, 12)
           mi == Num2(x, 15)
           sec == Num2(x, 18)
           split == DivMod(t, 86400)
       IN /\ mo \in 1..12
          /\ d \in 1..DaysInMonth(y, mo)
          /\ h < 24 /\ mi < 60 /\ sec < 60
          /\ y >= 1970
          /\ split.q = W(DaysFromCivil(y, mo, d))
          /\ split.r = h * 3600 + mi * 60 + sec

\* The words of a string, split at single spaces.
RECURSIVE Words(_, _)
Words(x, word) ==
    IF x = <<>> THEN <<word>>
    ELSE IF x[1] = " " THEN <<word>> \o Words(Tail(x), <<>>)
    ELSE Words(Tail(x), Append(word, x[1]))

RECURSIVE DigitPrefix(_)
DigitPrefix(x) ==
    IF x # <<>> /\ IsDigit(x[1]) THEN 1 + DigitPrefix(Tail(x)) ELSE 0

\* Up to twenty decimal digits as a wide number.
ParseDec(ds) ==
    LET pad == [i \in 1..(20 - Len(ds)) |-> "0"] \o ds
        limb(k) == DigitVal(pad[4 * k - 3]) * 1000 + DigitVal(pad[4 * k - 2]) * 100
                   + DigitVal(pad[4 * k - 1]) * 10 + DigitVal(pad[4 * k])
    IN <<limb(1), limb(2), limb(3), limb(4), limb(5)>>

\* The unit names humantime::parse_duration recognises, largest unit first
\* (rank), each with its length: len[1] * len[2] seconds for the units of a
\* second and more, len[1] * len[2] nanoseconds for the units below it.
Units ==
    LET u(names, rank, len) == [names |-> names, rank |-> rank, len |-> len]
    IN {u({"years", "year", "y"}, 10, <<21600, 1461>>),
        u({"months", "month", "M"}, 9, <<3044, 864>>),
        u({"weeks", "week", "w"}, 8, <<86400, 7>>),
        u({"days", "day", "d"}, 7, <<86400, 1>>),
        u({"hours", "hour", "hr", "h"}, 6, <<3600, 1>>),
        u({"minutes", "minute", "min", "m"}, 5, <<60, 1>>),
        u({"seconds", "second", "sec", "s"}, 4, <<1, 1>>),
        u({"msec", "ms"}, 3, <<1000, 1000>>),
        u({"usec", "us"}, 2, <<1000, 1>>),
        u({"nsec", "ns"}, 1, <<1, 1>>)}

UnitsNamed(name) == {u \in Units : \E n \in u.names : Chars(n) = name}

\* A word as a count and a unit: [ok, count, rank, len].
ParseWord(w) ==
    LET k == DigitPrefix(w)
        name == SubSeq(w, k + 1, Len(w))
        us == UnitsNamed(name)
    IN IF k = 0 \/ k > 20 \/ us = {}
       THEN [ok |-> FALSE, count |-> Zero, rank |-> 0, len |-> <<1, 1>>]
       ELSE LET u == CHOOSE v \in us : TRUE
            IN [ok |-> TRUE, count |-> ParseDec(SubSeq(w, 1, k)),
                rank |-> u.rank, len |-> u.len]

ParseDuration(x) == [i \in 1..Len(Words(x, <<>>)) |-> ParseWord(Words(x, <<>>)[i])]

\* A duration as whole seconds (wide) and nanoseconds below 10^9.
Normal(secs, nanos) ==
    LET split == DivMod2(nanos, 10000, 100000)
    IN [secs |-> Add(secs, split.q), nanos |-> split.r]

\* count * unit length of one parsed word.
WordValue(w) ==
    LET x == Mul(Mul(w.count, w.len[1]), w.len[2])
    IN IF w.rank >= 4 THEN [secs |-> x, nanos |-> 0] ELSE Normal(Zero, x)

\* The sum over the words of count * unit length.
RECURSIVE Total(_)
Total(ws) ==
    IF ws = <<>> THEN [secs |-> Zero, nanos |-> 0]
    ELSE LET v == WordValue(ws[1])
             rest == Total(Tail(ws))
         IN Normal(Add(v.secs, rest.secs), W(v.nanos + rest.nanos))

----------------------------------------------------------------------------
(* The call under observation *)

IsCall(c, op) == c.op = op /\ \A i \in 1..Len(c.args) : c.args[i] # Absent

Returned(c) == c.out.kind = "ok"

Epoch == Chars("1970-01-01T00:00:00Z")

\* The arguments of the call observed, when present.
Stamp == cur.args[1][1]

Secs == cur.args[1][1]

Nanos == cur.args[2][1]

SumA == cur.args[1][1]

SumB == cur.args[2][1]

----------------------------------------------------------------------------
(* C1 *)

\* C1 as claimed: for every u64 timestamp t, to_iso(t) returns a string of
\* the shape YYYY-MM-DDTHH:MM:SSZ and never fails.
C1_AnyStamp ==
    IsCall(cur, "to_iso") => Returned(cur) /\ IsIsoShape(cur.out.val)

\* C1 as amended: for every timestamp t < 253402300800 (up to
\* 9999-12-31T23:59:59Z) to_iso(t) returns a string of the shape
\* YYYY-MM-DDTHH:MM:SSZ; for every larger t the call fails with a panic.
C1_UpToYear9999 ==
    IsCall(cur, "to_iso") =>
        IF Lt(Stamp, Year10000)
        THEN Returned(cur) /\ IsIsoShape(cur.out.val)
        ELSE cur.out = Panic

C1_Witness ==
    /\ IsCall(cur, "to_iso")
    /\ Stamp = Sub(Year10000, W(1))
    /\ Returned(cur)
    /\ cur.out.val = Chars("9999-12-31T23:59:59Z")

----------------------------------------------------------------------------
(* C2 *)

\* C2: a string to_iso(t) returns names the proleptic-Gregorian UTC instant
\* t seconds after the epoch; to_iso(0) and to_iso(31536000) are the epoch
\* and 1971-01-01T00:00:00Z; and of two timestamps the smaller one's string
\* is lexicographically smaller.
C2_DenotesInstant ==
    IsCall(cur, "to_iso") /\ Returned(cur) =>
        /\ Denotes(cur.out.val, Stamp)
        /\ Stamp = Zero => cur.out.val = Epoch
        /\ Stamp = W(31536000) => cur.out.val = Chars("1971-01-01T00:00:00Z")
        /\ IsCall(pinned, "to_iso") /\ Returned(pinned)
           /\ Lt(pinned.args[1][1], Stamp)
           => LexLt(pinned.out.val, cur.out.val)

C2_Witness ==
    /\ IsCall(pinned, "to_iso")
    /\ pinned.args[1][1] = W(68255999)
    /\ pinned.out = Ok(Chars("1972-02-29T23:59:59Z"))
    /\ IsCall(cur, "to_iso")
    /\ Stamp = W(68256000)
    /\ cur.out = Ok(Chars("1972-03-01T00:00:00Z"))

----------------------------------------------------------------------------
(* C3 *)

\* C3: for nanos < 10^9, from_duration(secs, nanos) returns a non-empty
\* string of words, each a count and a recognised unit, the units strictly
\* from larger to smaller (so none twice), no count zero; except that
\* from_duration(0, 0) is "0s".
C3_UnitsInOrder ==
    IsCall(cur, "from_duration") /\ Lt(Nanos, W(1000000000)) =>
        /\ Returned(cur)
        /\ cur.out.val # <<>>
        /\ LET ws == ParseDuration(cur.out.val)
           IN /\ Len(ws) >= 1
              /\ \A i \in 1..Len(ws) : ws[i].ok
              /\ \A i \in 1..Len(ws), j \in 1..Len(ws) :
                    i < j => ws[i].rank > ws[j].rank
              /\ IF Secs = Zero /\ Nanos = Zero
                 THEN cur.out.val = Chars("0s")
                 ELSE \A i \in 1..Len(ws) : ws[i].count # Zero

C3_Witness ==
    /\ IsCall(cur, "from_duration")
    /\ Secs = W(63115199)
    /\ Nanos = W(1001001)
    /\ cur.out = Ok(Chars("1year 11months 30days 9h 50m 23s 1ms 1us 1ns"))

----------------------------------------------------------------------------
(* C4 *)

\* C4: the string from_duration(secs, nanos) returns stands for exactly the
\* input: the sum of count * unit length over its words is secs seconds
\* plus nanos nanoseconds; from_duration(3661, 0) is "1h 1m 1s" and
\* from_duration(0, 0) stands for zero.
C4_ExactValue ==
    IsCall(cur, "from_duration") /\ Returned(cur) =>
        LET ws == ParseDuration(cur.out.val)
        IN /\ \A i \in 1..Len(ws) : ws[i].ok
           /\ Total(ws) = Normal(Secs, Nanos)
           /\ Secs = W(3661) /\ Nanos = Zero => cur.out.val = Chars("1h 1m 1s")
           /\ Secs = Zero /\ Nanos = Zero => Total(ws) = [secs |-> Zero, nanos |-> 0]

C4_Witness ==
    /\ IsCall(cur, "from_duration")
    /\ Secs = W(3661)
    /\ Nanos = U32Max
    /\ cur.out = Ok(Chars("1h 1m 5s 294ms 967us 295ns"))

----------------------------------------------------------------------------
(* C5 *)

\* C5 as claimed: a call of from_duration that passes only the seconds
\* succeeds and returns what from_duration(seconds, 0) returns.
C5_NanosDefaultZero ==
    cur.op = "from_duration" /\ cur.args[1] # Absent /\ cur.args[2] = Absent =>
        /\ Returned(cur)
        /\ cur.out = from_duration(cur.args[1], Some(Zero))

----------------------------------------------------------------------------
(* C6 *)

\* C6: when a + b fits the unsigned machine integer, sum(a, b) returns
\* exactly a + b, and sum(b, a) returns the same.
C6_SumInRange ==
    IsCall(cur, "sum") /\ Le(Add(SumA, SumB), U64Max) =>
        /\ Returned(cur)
        /\ cur.out.val = Add(SumA, SumB)
        /\ Le(SumA, cur.out.val) /\ Sub(cur.out.val, SumA) = SumB
        /\ IsCall(pinned, "sum") /\ pinned.args = <<cur.args[2], cur.args[1]>>
           => pinned.out = cur.out

C6_Witness ==
    /\ IsCall(pinned, "sum")
    /\ pinned.args = <<Some(I64Max), Some(Add(I64Max, W(1)))>>
    /\ IsCall(cur, "sum")
    /\ cur.args = <<Some(Add(I64Max, W(1))), Some(I64Max)>>
    /\ cur.out = Ok(U64Max)

----------------------------------------------------------------------------
(* C7 *)

\* C7 as claimed: from_duration returns a string for every (secs, nanos)
\* the boundary accepts, nanos >= 10^9 and secs = u64::MAX included.
C7_NeverFails ==
    IsCall(cur, "from_duration") => Returned(cur)

\* C7 as amended: from_duration(secs, nanos) returns a string for every
\* (secs, nanos) the boundary accepts with secs + nanos div 10^9 <= u64::MAX
\* (so for every nanos < 10^9); when that sum overflows the call fails
\* with a panic.
C7_FailsOnlyOnCarryOverflow ==
    IsCall(cur, "from_duration") =>
        IF Le(Add(Secs, DivMod2(Nanos, 10000, 100000).q), U64Max)
        THEN Returned(cur)
        ELSE cur.out = Panic

C7_Witness ==
    /\ IsCall(cur, "from_duration")
    /\ Secs = U64Max
    /\ Nanos = W(999999999)
    /\ Returned(cur)

----------------------------------------------------------------------------
(* C8 *)

----------------------------------------------------------------------------
(* C9 *)

\* C9 as claimed: to_iso called without a timestamp returns the epoch
\* string "1970-01-01T00:00:00Z" instead of failing, and a timestamp that
\* is passed is the one formatted.
C9_AbsentStampIsEpoch ==
    cur.op = "to_iso" =>
        IF cur.args[1] = Absent
        THEN cur.out = Ok(Epoch)
        ELSE Returned(cur) => Denotes(cur.out.val, Stamp)

----------------------------------------------------------------------------
(* C10 *)

\* C10 as claimed: a value sum(a, b) returns is never below a or b; when
\* a + b exceeds the maximum the call fails.
C10_NeverWraps ==
    IsCall(cur, "sum") =>
        /\ Returned(cur) => Le(SumA, cur.out.val) /\ Le(SumB, cur.out.val)
        /\ Lt(U64Max, Add(SumA, SumB)) => ~Returned(cur)

\* C10 as amended: when a + b fits, sum(a, b) returns a value that is
\* neither below a nor below b; when a + b exceeds the maximum, a build with
\* overflow checks fails with a panic and a build without them returns
\* (a + b) mod 2^64.
C10_WrapsWithoutOverflowChecks ==
    IsCall(cur, "sum") =>
        IF Le(Add(SumA, SumB), U64Max)
        THEN Returned(cur) /\ Le(SumA, cur.out.val) /\ Le(SumB, cur.out.val)
        ELSE IF overflow_checks THEN cur.out = Panic
        ELSE cur.out = Ok(Sub(Add(SumA, SumB), TwoPow64))

C10_Witness ==
    /\ ~overflow_checks
    /\ IsCall(cur, "sum")
    /\ SumA = U64Max
    /\ SumB = W(1)
    /\ cur.out = Ok(Zero)

====
